---------------------------- MODULE Spec2Model ----------------------------
(***************************************************************************)
(* The social-network store of the programming assignment notebook:        *)
(* create_database, load_data_from_csv and the three query functions; and  *)
(* the Singleton class of module_3.                                        *)
(*                                                                         *)
(* Spec is the notebook on a database that does not fail, called as the    *)
(* notebook calls it; SpecPath calls load with any csv_path; SpecFault     *)
(* lets the clearing block of load raise; SpecSingleton is the Singleton   *)
(* called from one thread; SpecThreads is getInstance called by two.       *)
(*                                                                         *)
(* The database is the four tables of create_database.  The SQLAlchemy     *)
(* session is modelled by what the code relies on: objects added but not   *)
(* yet flushed (pend), the view of the open transaction (tx), the last     *)
(* committed contents (db) and the "needs rollback" state a failed flush   *)
(* leaves behind (inactive).  load_data_from_csv runs in steps: the        *)
(* clearing block and the read, one step per row of each of the two loops, *)
(* and the two commits.  Queries run between loads.                        *)
(*                                                                         *)
(* A Person row is (id, name); age, gender and location are copied         *)
(* verbatim and read by no condition of the code, and name stands for the  *)
(* already concatenated "<Name> <Surname>".                                *)
(***************************************************************************)
EXTENDS Integers, Sequences, FiniteSets, TLC

(***************************************************************************)
(* Bounds.  MaxSize bounds the number of cells (rows plus list entries     *)
(* plus one for a defect of the file) read from members.csv over a         *)
(* behaviour; the other sets are the values the cells are drawn from.      *)
(***************************************************************************)
MaxSize == 4

PersonIds == {1, 2}

Names == {"a", "b"}

ClubNames == {"x", "y"}

\* Query keys: every value of the input, and one that no input holds.
ClubKeys == ClubNames \cup {"z"}

NameKeys == Names \cup {"n"}

\* What can be wrong with the file as a whole: a list literal that eval
\* cannot parse, or a column that is missing.
Faults == {"literal", "Age", "Clubs", "Friendships"}

(***************************************************************************)
(* Helpers on sequences.                                                   *)
(***************************************************************************)
Range(s) == {s[j] : j \in 1..Len(s)}

HasDup(s) == \E j, k \in 1..Len(s) : j < k /\ s[j] = s[k]

Count(s, e) == Cardinality({j \in 1..Len(s) : s[j] = e})

RECURSIVE Flatten(_)
Flatten(ss) == IF ss = <<>> THEN <<>> ELSE Head(ss) \o Flatten(Tail(ss))

(***************************************************************************)
(* The contents of members.csv, as pd.read_csv hands them to the loops.    *)
(***************************************************************************)
ListsOf(S, n) == [1..n -> S]

RowsOfSize(w) ==
    UNION {{[id |-> d, name |-> n, clubs |-> c, friends |-> f] :
                d \in PersonIds, n \in Names,
                c \in ListsOf(ClubNames, k), f \in ListsOf(PersonIds, w - 1 - k)} :
           k \in 0..(w - 1)}

RECURSIVE RowSeqsOfSize(_)
RowSeqsOfSize(w) ==
    IF w = 0 THEN {<<>>}
    ELSE UNION {{<<r>> \o s : r \in RowsOfSize(k), s \in RowSeqsOfSize(w - k)} :
                k \in 1..w}

\* A missing column has no cells.
FitsFault(f, rows) ==
    /\ f = "Clubs" => \A j \in 1..Len(rows) : rows[j].clubs = <<>>
    /\ f = "Friendships" => \A j \in 1..Len(rows) : rows[j].friends = <<>>

InputsOfSize(w) ==
    {[fault |-> "none", rows |-> s] : s \in RowSeqsOfSize(w)}
    \cup (IF w = 0 THEN {}
          ELSE {in \in [fault : Faults, rows : RowSeqsOfSize(w - 1)] :
                    FitsFault(in.fault, in.rows)})

InputsBySize == [w \in 0..MaxSize |-> InputsOfSize(w)]

NoInput == [fault |-> "none", rows |-> <<>>]

RowIds(rows) == {rows[j].id : j \in 1..Len(rows)}

(***************************************************************************)
(* The tables of create_database.  clubs is indexed by the club id, which  *)
(* SQLite assigns as the largest id in the table plus one.  club_members   *)
(* holds its rows in the order of their rowids, which is the order SQLite  *)
(* scans the table in; the rows are written club by club, and only the     *)
(* order among the rows of one club shows in a query.  people and          *)
(* friendships are read through their primary keys, so they are sets.      *)
(***************************************************************************)
EmptyTables ==
    [people |-> {}, clubs |-> <<>>, club_members |-> <<>>, friendships |-> {}]

NoPending == [persons |-> <<>>, clubs |-> <<>>, members |-> <<>>, friends |-> <<>>]

VARIABLES
    db,           \* committed contents of social_network.db
    tx,           \* the tables as the session's open transaction sees them
    pend,         \* objects and collection appends not yet flushed
    inactive,     \* TRUE after a flush failed and before close()/rollback()
    pc,           \* "idle", "cleared" (clearing block raised and was left),
                  \* "pass1" (first loop), "pass2" (second loop)
    i,            \* the row the running loop is at
    csv,          \* df: what the running or the last load read
    people_dict,  \* ids of the Persons the first loop has added
    clubs_dict,   \* description -> position of the Club among the added ones
    outcome,      \* of the last load call: "none", "running", "ok", "raised"
    ret,          \* the last query call and what it returned
    used,         \* cells read so far
    pre,          \* the tables before the running or failed load
    reload,       \* set when a load re-reads the input of the load before it
    csv_path,     \* the csv_path argument of the running or the last load
    other_csv,    \* the contents of the file that is not members.csv
    fresh,        \* TRUE if the running or the last load made its own session
    _instance,    \* Singleton._instance: an object, or NoObject for None
    configuration,\* object -> its configuration dict, once __init__ has set it
    handles,      \* caller -> the object its variable refers to
    call,         \* the last call on Singleton, its result and the state before
    stored,       \* key -> the value last given to set_config, and by whom
    constructed,  \* the object a direct constructor call has registered
    threads       \* thread -> where it is in getInstance, its new object, its result

\* The state of the Singleton notebook.
sgl == <<_instance, configuration, handles, call, stored, constructed, threads>>

\* The state of the social-network notebook.
store == <<db, tx, pend, inactive, pc, i, csv, people_dict, clubs_dict,
           outcome, ret, used, pre, reload, csv_path, other_csv, fresh>>

vars == <<db, tx, pend, inactive, pc, i, csv, people_dict, clubs_dict,
          outcome, ret, used, pre, reload, csv_path, other_csv, fresh,
          _instance, configuration, handles, call, stored, constructed, threads>>

NoCall == [op |-> "none", key |-> "", raised |-> FALSE, out |-> <<>>]

NoReload == [same |-> FALSE, outcome |-> "none",
             sess |-> [tx |-> EmptyTables, pend |-> NoPending, inactive |-> FALSE]]

\* The notebook calls load_data_from_csv with "members.csv".
Paths == {"members.csv", "other.csv"}

InitStore ==
    /\ db = EmptyTables
    /\ tx = EmptyTables
    /\ pend = NoPending
    /\ inactive = FALSE
    /\ pc = "idle"
    /\ i = 0
    /\ csv = NoInput
    /\ people_dict = {}
    /\ clubs_dict = <<>>
    /\ outcome = "none"
    /\ ret = NoCall
    /\ used = 0
    /\ pre = EmptyTables
    /\ reload = NoReload
    /\ csv_path = "members.csv"
    /\ fresh = FALSE

(***************************************************************************)
(* The Singleton class: its objects are numbered in the order they are     *)
(* made, a dict is a function on the keys it holds.                        *)
(***************************************************************************)
MaxObjects == 2

ConfigKeys == {"database", "cache"}

ConfigValues == {"PostgreSQL", "SQLite"}

\* The two variables of the notebook that are assigned a Singleton.
Callers == {"singleton_instance", "another_instance"}

None == "None"

NoObject == 0

EmptyDict == [k \in {} |-> None]

\* Two threads that each call Singleton.getInstance() once.
Threads == {"t1", "t2"}

NotCalled == [pc |-> "idle", self |-> NoObject, ret |-> None, raised |-> FALSE]

NoSingletonCall ==
    [op |-> "none", by |-> None, key |-> None, raised |-> FALSE, ret |-> None,
     before |-> [instance |-> NoObject, configuration |-> <<>>]]

InitSingleton ==
    /\ _instance = NoObject
    /\ configuration = <<>>
    /\ handles = [c \in Callers |-> NoObject]
    /\ call = NoSingletonCall
    /\ stored = [k \in ConfigKeys |-> [value |-> None, by |-> None]]
    /\ constructed = NoObject
    /\ threads = [t \in Threads |-> NotCalled]

Init == InitStore /\ other_csv = NoInput /\ InitSingleton


(***************************************************************************)
(* The session.                                                            *)
(***************************************************************************)

\* A flush inserts the pending rows; a primary key that is already taken,
\* in the table or twice among the pending rows, raises IntegrityError.
\* people has the key (id), the two association tables the key (both ids).
\* The rows a flush writes to club_members: for each new Club the members
\* of its collection, in the order they were appended.
MemberRows(T, p) ==
    Flatten([c \in 1..Len(p.clubs) |->
                LET of_club == SelectSeq(p.members, LAMBDA m : m[2] = c)
                IN [j \in 1..Len(of_club) |-> <<of_club[j][1], Len(T.clubs) + c>>]])

FlushConflictPeopleUnkeyed(T, p) ==
    \/ HasDup(p.members)
    \/ \E j \in 1..Len(p.members) : MemberRows(T, p)[j] \in Range(T.club_members)
    \/ HasDup(p.friends)
    \/ \E j \in 1..Len(p.friends) : p.friends[j] \in T.friendships

FlushConflict(T, p) ==
    \/ HasDup([j \in 1..Len(p.persons) |-> p.persons[j].id])
    \/ \E j \in 1..Len(p.persons) : p.persons[j].id \in {q.id : q \in T.people}
    \/ HasDup(p.members)
    \/ \E j \in 1..Len(p.members) : MemberRows(T, p)[j] \in Range(T.club_members)
    \/ HasDup(p.friends)
    \/ \E j \in 1..Len(p.friends) : p.friends[j] \in T.friendships

FlushedClubsLastFirst(T, p) ==
    [people |-> T.people \cup Range(p.persons),
     clubs |-> T.clubs \o [k \in 1..Len(p.clubs) |-> p.clubs[Len(p.clubs) + 1 - k]],
     club_members |-> T.club_members \o MemberRows(T, p),
     friendships |-> T.friendships \cup Range(p.friends)]

Flushed(T, p) ==
    [people |-> T.people \cup Range(p.persons),
     clubs |-> T.clubs \o p.clubs,
     club_members |-> T.club_members \o MemberRows(T, p),
     friendships |-> T.friendships \cup Range(p.friends)]

(***************************************************************************)
(* load_data_from_csv.                                                     *)
(***************************************************************************)

\* The four delete() calls of the clearing block.
ClearTablesKeepsAll(T) == T

ClearTablesPeopleOnly(T) == [T EXCEPT !.people = {}]

ClearTables(T) ==
    [people |-> {}, clubs |-> <<>>, club_members |-> <<>>, friendships |-> {}]

\* if club_description not in clubs_dict
ClubIsNewAlways(d, dict) == TRUE

ClubIsNew(d, dict) == d \notin DOMAIN dict

\* The inner loop over row['Clubs']: get or create the Club, then
\* club.members.append(person).
RECURSIVE AddClubs(_, _, _, _)
AddClubs(p, dict, pid, descs) ==
    IF descs = <<>> THEN [pend |-> p, dict |-> dict]
    ELSE LET d == Head(descs)
             new == ClubIsNew(d, dict)
             p1 == IF new THEN [p EXCEPT !.clubs = Append(@, d)] ELSE p
             dict1 == IF new
                      THEN [e \in (DOMAIN dict) \cup {d} |->
                               IF e = d THEN Len(p1.clubs) ELSE dict[e]]
                      ELSE dict
             p2 == [p1 EXCEPT !.members = Append(@, <<pid, dict1[d]>>)]
         IN AddClubs(p2, dict1, pid, Tail(descs))

\* The friend ids of a row that the second loop turns into edges:
\* if friend_id in people_dict.
FriendTargetsEarlierRows(row, dict) ==
    SelectSeq(row.friends,
              LAMBDA f : f \in {csv.rows[j].id : j \in 1..(i - 1)})

FriendTargetsUnchecked(row, dict) == row.friends

FriendTargets(row, dict) == SelectSeq(row.friends, LAMBDA f : f \in dict)

\* person.friends.append(people_dict[friend_id]), for each of them.
FriendEdgesBothWays(pid, targets) ==
    Flatten([j \in 1..Len(targets) |-> <<<<pid, targets[j]>>, <<targets[j], pid>>>>])

FriendEdges(pid, targets) == [j \in 1..Len(targets) |-> <<pid, targets[j]>>]

\* An exception leaves load_data_from_csv: its locals are gone.
Raise ==
    /\ pc' = "idle"
    /\ i' = 0
    /\ people_dict' = {}
    /\ clubs_dict' = <<>>
    /\ outcome' = "raised"

\* A flush failed: the transaction is rolled back, the new objects are
\* expunged and the session waits for rollback().
FlushFailed ==
    /\ tx' = db
    /\ pend' = NoPending
    /\ inactive' = TRUE
    /\ UNCHANGED db

\* The files on disk when members.csv holds in.
Files(in) == [p \in Paths |-> IF p = "members.csv" THEN in ELSE other_csv]

\* pd.read_csv(filepath, converters=...)
read_csv(files, filepath) == files[filepath]

\* session.close(), the four deletes and their commit, then pd.read_csv of
\* the file as it is now: in.  used counts the cells written to the file.
LoadStart(in, cells) ==
    /\ used' = cells
    /\ csv' = read_csv(Files(in), "members.csv")
    /\ reload' = IF in = csv /\ outcome # "none"
                 THEN [same |-> TRUE, outcome |-> outcome,
                       sess |-> [tx |-> tx, pend |-> pend, inactive |-> inactive]]
                 ELSE NoReload
    /\ IF in.fault = "literal"
       THEN Raise
       ELSE /\ pc' = "pass1"
            /\ i' = 1
            /\ people_dict' = {}
            /\ clubs_dict' = <<>>
            /\ outcome' = "running"
    /\ pre' = tx
    /\ db' = ClearTables(db)
    /\ tx' = db'
    /\ pend' = NoPending
    /\ inactive' = FALSE
    /\ ret' = NoCall
    /\ fresh' = FALSE
    /\ UNCHANGED sgl

\* The tables as the open transaction sees them when the clearing block
\* has done the first k of its delete() calls: Person, Club, friendships,
\* club_members.
DeletesDone(T, k) ==
    [people |-> IF k >= 1 THEN {} ELSE T.people,
     clubs |-> IF k >= 2 THEN <<>> ELSE T.clubs,
     friendships |-> IF k >= 3 THEN {} ELSE T.friendships,
     club_members |-> IF k >= 4 THEN <<>> ELSE T.club_members]

\* session.rollback(): what the open transaction did is undone.
rollbackKeepsDeletes(committed, T) == T

rollback(committed, T) == committed

\* The clearing block raises at the delete after the first k, or at its
\* commit: the except branch rolls back and binds the local name session
\* to a new Session.
LoadClearRaises ==
    /\ pc = "idle"
    /\ \E k \in 0..4 : db' = rollback(db, DeletesDone(db, k))
    /\ pre' = db
    /\ tx' = db'
    /\ pend' = NoPending
    /\ inactive' = FALSE
    /\ fresh' = TRUE
    /\ pc' = "cleared"
    /\ outcome' = "running"
    /\ ret' = NoCall
    /\ reload' = NoReload
    /\ UNCHANGED <<i, csv, people_dict, clubs_dict, used, csv_path, other_csv>>
    /\ UNCHANGED sgl

\* Load goes on after the except branch: pd.read_csv and the two dicts.
ReadAfterClearRaised(in, cells) ==
    /\ used' = cells
    /\ csv' = read_csv(Files(in), "members.csv")
    /\ IF in.fault = "literal"
       THEN Raise
       ELSE /\ pc' = "pass1"
            /\ i' = 1
            /\ people_dict' = {}
            /\ clubs_dict' = <<>>
            /\ UNCHANGED outcome
    /\ UNCHANGED <<db, tx, pend, inactive, ret, pre, reload, csv_path, other_csv, fresh>>
    /\ UNCHANGED sgl

LoadGoesOn ==
    /\ pc = "cleared"
    /\ \/ \E w \in 0..(MaxSize - used) : \E in \in InputsBySize[w] :
              ReadAfterClearRaised(in, used + w)
       \/ ReadAfterClearRaised(csv, used)

\* The call of the notebook: csv_path is "members.csv".
LoadBegin ==
    /\ pc = "idle"
    /\ \/ \E w \in 0..(MaxSize - used) : \E in \in InputsBySize[w] :
              LoadStart(in, used + w)
       \/ LoadStart(csv, used)
    /\ UNCHANGED <<csv_path, other_csv>>

\* A call with any csv_path.
LoadFromPath ==
    /\ pc = "idle"
    /\ \E path \in Paths : csv_path' = path
    /\ \/ \E w \in 0..(MaxSize - used) : \E in \in InputsBySize[w] :
              LoadStart(in, used + w)
       \/ LoadStart(csv, used)
    /\ UNCHANGED other_csv

\* One iteration of the first loop.
Pass1Row ==
    /\ pc = "pass1"
    /\ i <= Len(csv.rows)
    /\ LET row == csv.rows[i]
           added == [pend EXCEPT !.persons = Append(@, [id |-> row.id, name |-> row.name])]
           done == AddClubs(added, clubs_dict, row.id, row.clubs)
       IN IF csv.fault = "Age"
          THEN \* KeyError while the arguments of Person(...) are evaluated
               Raise /\ UNCHANGED pend
          ELSE IF csv.fault = "Clubs"
          THEN \* KeyError at row['Clubs'], after session.add(person)
               Raise /\ pend' = added
          ELSE /\ pend' = done.pend
               /\ clubs_dict' = done.dict
               /\ people_dict' = people_dict \cup {row.id}
               /\ i' = i + 1
               /\ UNCHANGED <<pc, outcome>>
    /\ UNCHANGED <<db, tx, inactive, csv, ret, used, pre, reload>>
    /\ UNCHANGED <<csv_path, other_csv, fresh>>
    /\ UNCHANGED sgl

\* The commit between the loops.
Commit1 ==
    /\ pc = "pass1"
    /\ i > Len(csv.rows)
    /\ IF FlushConflict(tx, pend)
       THEN Raise /\ FlushFailed
       ELSE /\ db' = Flushed(tx, pend)
            /\ tx' = db'
            /\ pend' = NoPending
            /\ pc' = "pass2"
            /\ i' = 1
            /\ UNCHANGED <<inactive, people_dict, clubs_dict, outcome>>
    /\ UNCHANGED <<csv, ret, used, pre, reload, csv_path, other_csv, fresh>>
    /\ UNCHANGED sgl

\* One iteration of the second loop.  The first person.friends of a row
\* loads the collection, and the session flushes before it queries.
Pass2Row ==
    /\ pc = "pass2"
    /\ i <= Len(csv.rows)
    /\ LET row == csv.rows[i]
           targets == FriendTargets(row, people_dict)
           edges == FriendEdges(row.id, targets)
       IN IF csv.fault = "Friendships"
          THEN \* KeyError at row['Friendships']
               Raise /\ UNCHANGED <<db, tx, pend, inactive>>
          ELSE IF \E j \in 1..Len(targets) : targets[j] \notin people_dict
          THEN \* KeyError at people_dict[friend_id]
               Raise /\ UNCHANGED <<db, tx, pend, inactive>>
          ELSE IF targets = <<>>
          THEN /\ i' = i + 1
               /\ UNCHANGED <<db, tx, pend, inactive, pc, people_dict, clubs_dict, outcome>>
          ELSE IF FlushConflict(tx, pend)
          THEN Raise /\ FlushFailed
          ELSE /\ tx' = Flushed(tx, pend)
               /\ pend' = [NoPending EXCEPT !.friends = edges]
               /\ i' = i + 1
               /\ UNCHANGED <<db, inactive, pc, people_dict, clubs_dict, outcome>>
    /\ UNCHANGED <<csv, ret, used, pre, reload, csv_path, other_csv, fresh>>
    /\ UNCHANGED sgl

\* The final commit.
Commit2 ==
    /\ pc = "pass2"
    /\ i > Len(csv.rows)
    /\ IF FlushConflict(tx, pend)
       THEN Raise /\ FlushFailed
       ELSE /\ db' = Flushed(tx, pend)
            /\ tx' = db'
            /\ pend' = NoPending
            /\ pc' = "idle"
            /\ i' = 0
            /\ people_dict' = {}
            /\ clubs_dict' = <<>>
            /\ outcome' = "ok"
            /\ UNCHANGED inactive
    /\ UNCHANGED <<csv, ret, used, pre, reload, csv_path, other_csv, fresh>>
    /\ UNCHANGED sgl

(***************************************************************************)
(* The queries.  A collection is read back from the tables.  No query has  *)
(* an ORDER BY: the rows come in the order SQLite walks them, which is the *)
(* primary key of people and of friendships (person_id, friend_id), and    *)
(* the rowid of club_members, whose key does not start with club_id.       *)
(***************************************************************************)
RECURSIVE InIdOrder(_)
InIdOrder(S) ==
    IF S = {} THEN <<>>
    ELSE LET m == CHOOSE p \in S : \A q \in S : p.id <= q.id
         IN <<m>> \o InIdOrder(S \ {m})

Returned(out) == [raised |-> FALSE, out |-> out]

\* An exception leaves the query function.
Raised == [raised |-> TRUE, out |-> <<>>]

\* session.query(Club).filter(Club.description == d).first(): 0 for None.
FirstClub(T, d) ==
    LET found == {k \in 1..Len(T.clubs) : T.clubs[k] = d}
    IN IF found = {} THEN 0 ELSE CHOOSE k \in found : \A l \in found : k <= l

\* session.query(Person).filter(Person.name == n).first(), when there is one.
NamedPersons(T, n) == {p \in T.people : p.name = n}

FirstPerson(T, n) ==
    CHOOSE p \in NamedPersons(T, n) : \A q \in NamedPersons(T, n) : p.id <= q.id

\* club.members
membersInIdOrder(T, c) ==
    InIdOrder({p \in T.people : <<p.id, c>> \in Range(T.club_members)})

members(T, c) ==
    LET rows == SelectSeq(T.club_members,
                          LAMBDA m : m[2] = c /\ m[1] \in {p.id : p \in T.people})
    IN [j \in 1..Len(rows) |-> CHOOSE p \in T.people : p.id = rows[j][1]]

\* person.friends
friends(T, p) == InIdOrder({q \in T.people : <<p.id, q.id>> \in T.friendships})

get_club_members_unguarded(T, club_description) ==
    LET club == FirstClub(T, club_description)
    IN IF club # 0 THEN Returned(members(T, club)) ELSE Raised

get_club_members(T, club_description) ==
    LET club == FirstClub(T, club_description)
    IN IF club # 0 THEN Returned(members(T, club)) ELSE Returned(<<>>)

get_friends_of_person_reversed(T, person_name) ==
    IF NamedPersons(T, person_name) # {}
    THEN Returned(InIdOrder({q \in T.people :
                     <<q.id, FirstPerson(T, person_name).id>> \in T.friendships}))
    ELSE Returned(<<>>)

get_friends_of_person(T, person_name) ==
    IF NamedPersons(T, person_name) # {}
    THEN Returned(friends(T, FirstPerson(T, person_name)))
    ELSE Returned(<<>>)

get_persons_who_consider_them_friend_ofAnyNamesake(T, person_name) ==
    Returned(InIdOrder({p \in T.people :
                \E q \in NamedPersons(T, person_name) : <<p.id, q.id>> \in T.friendships}))

get_persons_who_consider_them_friend_all(T, person_name) ==
    IF NamedPersons(T, person_name) = {}
    THEN Returned(<<>>)
    ELSE Returned(InIdOrder({p \in T.people : friends(T, p) # <<>>}))

\* Person.friends.any(Person.id == target_person.id): the Persons with a
\* friendships row to a people row whose id is the target's.
get_persons_who_consider_them_friend(T, person_name) ==
    IF NamedPersons(T, person_name) = {}
    THEN Returned(<<>>)
    ELSE LET target_person == FirstPerson(T, person_name)
         IN Returned(InIdOrder({p \in T.people :
                \E q \in T.people : /\ <<p.id, q.id>> \in T.friendships
                                    /\ q.id = target_person.id}))

Answer(op, key, T) ==
    CASE op = "club" -> get_club_members(T, key)
      [] op = "friends" -> get_friends_of_person(T, key)
      [] op = "admirers" -> get_persons_who_consider_them_friend(T, key)

\* What a query call does to the session sess and what the caller gets:
\* PendingRollbackError on a session whose flush failed; otherwise the
\* session flushes before it selects.
Asked(sess, op, key) ==
    IF sess.inactive
    THEN [sess |-> sess, ret |-> [op |-> op, key |-> key, raised |-> TRUE, out |-> <<>>]]
    ELSE IF FlushConflict(sess.tx, sess.pend)
    THEN [sess |-> [tx |-> db, pend |-> NoPending, inactive |-> TRUE],
          ret |-> [op |-> op, key |-> key, raised |-> TRUE, out |-> <<>>]]
    ELSE LET T == Flushed(sess.tx, sess.pend)
             a == Answer(op, key, T)
         IN [sess |-> [tx |-> T, pend |-> NoPending, inactive |-> FALSE],
             ret |-> [op |-> op, key |-> key, raised |-> a.raised, out |-> a.out]]

\* The session the caller holds.  When load made a session for itself, tx,
\* pend and inactive are that session's until the caller's is used again;
\* the caller's session was closed and rolled back, and its next
\* transaction sees what is committed.
Session ==
    IF fresh
    THEN [tx |-> db, pend |-> NoPending, inactive |-> FALSE]
    ELSE [tx |-> tx, pend |-> pend, inactive |-> inactive]

Ask(op, key) ==
    /\ pc = "idle"
    /\ LET r == Asked(Session, op, key)
       IN /\ tx' = r.sess.tx
          /\ pend' = r.sess.pend
          /\ inactive' = r.sess.inactive
          /\ ret' = r.ret
    /\ UNCHANGED <<db, pc, i, csv, people_dict, clubs_dict, outcome, used, pre, reload>>
    /\ UNCHANGED <<csv_path, other_csv, fresh>>
    /\ UNCHANGED sgl

GetClubMembers == \E d \in ClubKeys : Ask("club", d)

GetFriendsOfPerson == \E n \in NameKeys : Ask("friends", n)

GetPersonsWhoConsiderThemFriend == \E n \in NameKeys : Ask("admirers", n)

Next ==
    \/ LoadBegin
    \/ Pass1Row
    \/ Commit1
    \/ Pass2Row
    \/ Commit2
    \/ GetClubMembers
    \/ GetFriendsOfPerson
    \/ GetPersonsWhoConsiderThemFriend

Spec == Init /\ [][Next]_vars

(***************************************************************************)
(* Calls of load_data_from_csv with a csv_path of the caller's choice,     *)
(* with a second file on disk that holds one record.                       *)
(***************************************************************************)
OtherInputs == {in \in InputsBySize[1] : in.fault = "none"}

InitPath == InitStore /\ other_csv \in OtherInputs /\ InitSingleton

NextPath ==
    \/ LoadFromPath
    \/ Pass1Row
    \/ Commit1
    \/ Pass2Row
    \/ Commit2
    \/ GetClubMembers

SpecPath == InitPath /\ [][NextPath]_vars

(***************************************************************************)
(* The notebook with a database that can fail while load clears it.        *)
(***************************************************************************)
NextFault ==
    \/ LoadBegin
    \/ LoadClearRaises
    \/ LoadGoesOn
    \/ Pass1Row
    \/ Commit1
    \/ Pass2Row
    \/ Commit2
    \/ GetClubMembers

SpecFault == Init /\ [][NextFault]_vars

(***************************************************************************)
(* The Singleton notebook: calls of getInstance, of the constructor, of    *)
(* set_config and of get_config, one after the other.                      *)
(***************************************************************************)
Registered(self, conf) ==
    [o \in (DOMAIN conf) \cup {self} |-> IF o = self THEN EmptyDict ELSE conf[o]]

\* __init__ on the new object self, with _instance = inst.
__init__unchecked(self, inst, conf) ==
    [raised |-> FALSE, instance |-> self, configuration |-> Registered(self, conf)]

__init__(self, inst, conf) ==
    IF inst # NoObject
    THEN [raised |-> TRUE, instance |-> inst, configuration |-> conf]
    ELSE [raised |-> FALSE, instance |-> self, configuration |-> Registered(self, conf)]

\* getInstance; self is the object Singleton() makes if it is called.
getInstanceAlwaysNew(self, inst, conf) ==
    [raised |-> FALSE, instance |-> self, configuration |-> Registered(self, conf),
     ret |-> self]

getInstance(self, inst, conf) ==
    IF inst = NoObject
    THEN LET made == __init__(self, inst, conf)
         IN [raised |-> made.raised, instance |-> made.instance,
             configuration |-> made.configuration,
             ret |-> IF made.raised THEN None ELSE made.instance]
    ELSE [raised |-> FALSE, instance |-> inst, configuration |-> conf, ret |-> inst]

\* self.configuration[key] = value
set_config(dict, key, value) ==
    [k \in (DOMAIN dict) \cup {key} |-> IF k = key THEN value ELSE dict[k]]

\* self.configuration.get(key, None)
get_config(dict, key) == IF key \in DOMAIN dict THEN dict[key] ELSE None

\* The objects made so far: those __init__ has finished on, the one
\* registered, and those a thread is constructing or has constructed.
Made ==
    ((DOMAIN configuration) \cup {_instance} \cup {threads[t].self : t \in Threads})
        \ {NoObject}

NewObject == Cardinality(Made) + 1

Before == [instance |-> _instance, configuration |-> configuration]

\* c = Singleton.getInstance()
GetInstance ==
    /\ NewObject <= MaxObjects
    /\ \E c \in Callers :
          LET r == getInstance(NewObject, _instance, configuration)
          IN /\ _instance' = r.instance
             /\ configuration' = r.configuration
             /\ handles' = IF r.raised THEN handles ELSE [handles EXCEPT ![c] = r.ret]
             /\ call' = [op |-> "getInstance", by |-> c, key |-> None,
                         raised |-> r.raised, ret |-> r.ret, before |-> Before]
    /\ UNCHANGED <<stored, constructed, threads>>
    /\ UNCHANGED store

\* c = Singleton()
Construct ==
    /\ NewObject <= MaxObjects
    /\ \E c \in Callers :
          LET r == __init__(NewObject, _instance, configuration)
          IN /\ _instance' = r.instance
             /\ configuration' = r.configuration
             /\ handles' = IF r.raised THEN handles ELSE [handles EXCEPT ![c] = NewObject]
             /\ constructed' = IF r.raised THEN constructed ELSE NewObject
             /\ call' = [op |-> "Singleton", by |-> c, key |-> None,
                         raised |-> r.raised,
                         ret |-> IF r.raised THEN None ELSE NewObject,
                         before |-> Before]
    /\ UNCHANGED <<stored, threads>>
    /\ UNCHANGED store

\* c.set_config(key, value)
SetConfig ==
    /\ \E c \in Callers, key \in ConfigKeys, value \in ConfigValues :
          /\ handles[c] # NoObject
          /\ configuration' =
                 [configuration EXCEPT ![handles[c]] = set_config(@, key, value)]
          /\ stored' = [stored EXCEPT ![key] = [value |-> value, by |-> c]]
          /\ call' = [op |-> "set_config", by |-> c, key |-> key,
                      raised |-> FALSE, ret |-> None, before |-> Before]
    /\ UNCHANGED <<_instance, handles, constructed, threads>>
    /\ UNCHANGED store

\* c.get_config(key)
GetConfig ==
    /\ \E c \in Callers, key \in ConfigKeys :
          /\ handles[c] # NoObject
          /\ call' = [op |-> "get_config", by |-> c, key |-> key, raised |-> FALSE,
                      ret |-> get_config(configuration[handles[c]], key),
                      before |-> Before]
    /\ UNCHANGED <<_instance, configuration, handles, stored, constructed, threads>>
    /\ UNCHANGED store

NextSingleton ==
    \/ GetInstance
    \/ Construct
    \/ SetConfig
    \/ GetConfig

SpecSingleton == Init /\ [][NextSingleton]_vars

(***************************************************************************)
(* Two threads in Singleton.getInstance().  The class has no lock, and the *)
(* interpreter can switch threads between any two of these steps: the test *)
(* of getInstance, the test of __init__, its two assignments, the          *)
(* assignment of getInstance, and the read of its return.                  *)
(***************************************************************************)
At(t, where) == threads[t].pc = where

Goto(t, where) == threads' = [threads EXCEPT ![t].pc = where]

\* What a step of a thread leaves alone besides what it names.
ThreadKeeps(kept) ==
    /\ UNCHANGED kept
    /\ UNCHANGED <<handles, call, stored, constructed>>
    /\ UNCHANGED store

\* Singleton.getInstance() is called.
ThreadCall ==
    \E t \in Threads :
        /\ At(t, "idle")
        /\ Goto(t, "getInstance")
        /\ ThreadKeeps(<<_instance, configuration>>)

\* getInstance: if Singleton._instance is None, Singleton() makes the new
\* object and calls __init__ on it.
ThreadTest ==
    \E t \in Threads :
        /\ At(t, "getInstance")
        /\ IF _instance = NoObject
           THEN /\ NewObject <= MaxObjects
                /\ threads' = [threads EXCEPT ![t].pc = "__init__",
                                               ![t].self = NewObject]
           ELSE Goto(t, "return")
        /\ ThreadKeeps(<<_instance, configuration>>)

\* __init__: if Singleton._instance is not None: raise Exception(...)
ThreadInitTest ==
    \E t \in Threads :
        /\ At(t, "__init__")
        /\ IF _instance # NoObject
           THEN threads' = [threads EXCEPT ![t].pc = "done", ![t].raised = TRUE]
           ELSE Goto(t, "register")
        /\ ThreadKeeps(<<_instance, configuration>>)

\* __init__: Singleton._instance = self
ThreadRegister ==
    \E t \in Threads :
        /\ At(t, "register")
        /\ _instance' = threads[t].self
        /\ Goto(t, "configure")
        /\ ThreadKeeps(<<configuration>>)

\* __init__: self.configuration = {}
ThreadConfigure ==
    \E t \in Threads :
        /\ At(t, "configure")
        /\ configuration' = Registered(threads[t].self, configuration)
        /\ Goto(t, "assign")
        /\ ThreadKeeps(<<_instance>>)

\* getInstance: Singleton._instance = Singleton()
ThreadAssign ==
    \E t \in Threads :
        /\ At(t, "assign")
        /\ _instance' = threads[t].self
        /\ Goto(t, "return")
        /\ ThreadKeeps(<<configuration>>)

\* getInstance: return Singleton._instance
ThreadReturn ==
    \E t \in Threads :
        /\ At(t, "return")
        /\ threads' = [threads EXCEPT ![t].pc = "done", ![t].ret = _instance]
        /\ ThreadKeeps(<<_instance, configuration>>)

NextThreads ==
    \/ ThreadCall
    \/ ThreadTest
    \/ ThreadInitTest
    \/ ThreadRegister
    \/ ThreadConfigure
    \/ ThreadAssign
    \/ ThreadReturn

SpecThreads == Init /\ [][NextThreads]_vars

(***************************************************************************)
(* What an input stands for, read off the records alone.                   *)
(***************************************************************************)
Rows == csv.rows

Idle == pc = "idle"

Loaded == pc = "idle" /\ outcome = "ok"

PersonOf(row) == [id |-> row.id, name |-> row.name]

RECURSIVE FirstSeen(_)
FirstSeen(s) ==
    IF s = <<>> THEN <<>>
    ELSE LET front == FirstSeen(SubSeq(s, 1, Len(s) - 1))
         IN IF s[Len(s)] \in Range(front) THEN front ELSE Append(front, s[Len(s)])

ClubsOf(rows) == FirstSeen(Flatten([j \in 1..Len(rows) |-> rows[j].clubs]))

ClubId(rows, d) == CHOOSE k \in 1..Len(ClubsOf(rows)) : ClubsOf(rows)[k] = d

TablesOf(rows) ==
    [people |-> {PersonOf(rows[j]) : j \in 1..Len(rows)},
     clubs |-> ClubsOf(rows),
     club_members |->
         Flatten([k \in 1..Len(ClubsOf(rows)) |->
                     LET listing == SelectSeq([j \in 1..Len(rows) |-> rows[j]],
                                              LAMBDA r : ClubsOf(rows)[k] \in Range(r.clubs))
                     IN [j \in 1..Len(listing) |-> <<listing[j].id, k>>]]),
     friendships |-> UNION {{<<rows[j].id, f>> : f \in Range(rows[j].friends) \cap RowIds(rows)} :
                            j \in 1..Len(rows)}]

Ids(people) == {p.id : p \in people}

OutIds == [j \in 1..Len(ret.out) |-> ret.out[j].id]

C2_NoPartialLoad ==
    (Idle /\ outcome = "raised") =>
        /\ pend = NoPending
        /\ tx = pre \/ tx = EmptyTables

(***************************************************************************)
(* C3.  After a load, get_club_members(d) for a description d of the       *)
(* input returns every Person whose record lists d, once, and nobody else. *)
(***************************************************************************)
C3_ClubMembers ==
    (Loaded /\ ret.op = "club" /\ ret.key \in Range(ClubsOf(Rows))) =>
        /\ ~ret.raised
        /\ Range(ret.out) \subseteq {PersonOf(Rows[j]) : j \in 1..Len(Rows)}
        /\ \A j \in 1..Len(Rows) :
              Count(OutIds, Rows[j].id) =
                  IF ret.key \in Range(Rows[j].clubs) THEN 1 ELSE 0

\* The input has two Persons; the club asked for has one of them as its
\* member and not the other.
C3_Witness ==
    /\ Loaded
    /\ ret.op = "club"
    /\ ret.key \in Range(ClubsOf(Rows))
    /\ Len(ret.out) = 1
    /\ Cardinality(db.people) = 2

(***************************************************************************)
(* C4.  After a load, for every Person P of the input and every friend id  *)
(* F of P's record: get_friends_of_person(P.name) raises nothing, holds    *)
(* the Person with id F if one was loaded, and holds no Person with id F   *)
(* otherwise.  As claimed, for every P, namesakes included.                *)
(***************************************************************************)
FriendsListed(j) ==
    /\ ~ret.raised
    /\ \A f \in Range(Rows[j].friends) :
          IF f \in RowIds(Rows)
          THEN \E q \in Range(ret.out) : q.id = f /\ q \in db.people
          ELSE \A q \in Range(ret.out) : q.id # f

NameIsUnique(j) == \A k \in 1..Len(Rows) : k # j => Rows[k].name # Rows[j].name

C4_FriendsOfEveryPerson ==
    (Loaded /\ ret.op = "friends") =>
        \A j \in 1..Len(Rows) : Rows[j].name = ret.key => FriendsListed(j)

\* C4 as amended: for every Person P of the input whose display name no
\* other Person of the input has.
C4_FriendsOfUniquelyNamed ==
    (Loaded /\ ret.op = "friends") =>
        \A j \in 1..Len(Rows) :
            (Rows[j].name = ret.key /\ NameIsUnique(j)) => FriendsListed(j)

\* P lists a loaded Person and an id nobody has; P's friends were asked for.
C4_Witness ==
    /\ Loaded
    /\ ret.op = "friends"
    /\ \E j \in 1..Len(Rows) :
          /\ Rows[j].name = ret.key
          /\ NameIsUnique(j)
          /\ \E f \in Range(Rows[j].friends) : f \in RowIds(Rows)
          /\ \E f \in Range(Rows[j].friends) : f \notin RowIds(Rows)
    /\ ret.out # <<>>

(***************************************************************************)
(* C5.  get_persons_who_consider_them_friend(name) returns exactly the     *)
(* Persons with a friendship edge to the Person found by name: in every    *)
(* state by the edges of the store, and after a load by the records, the   *)
(* Persons whose record lists the id of the Person found.                  *)
(***************************************************************************)
FoundRow(name) ==
    CHOOSE j \in 1..Len(Rows) :
        /\ Rows[j].name = name
        /\ \A k \in 1..Len(Rows) : Rows[k].name = name => Rows[j].id <= Rows[k].id

C5_Admirers ==
    (Idle /\ ret.op = "admirers" /\ ~ret.raised) =>
        /\ ~HasDup(ret.out)
        /\ IF \E p \in tx.people : p.name = ret.key
           THEN LET target == CHOOSE p \in tx.people :
                                 /\ p.name = ret.key
                                 /\ \A q \in tx.people : q.name = ret.key => p.id <= q.id
                IN Range(ret.out) = {p \in tx.people : <<p.id, target.id>> \in tx.friendships}
           ELSE ret.out = <<>>
        /\ (outcome = "ok" /\ \E j \in 1..Len(Rows) : Rows[j].name = ret.key) =>
              Range(ret.out) = {PersonOf(Rows[j]) : j \in
                                   {k \in 1..Len(Rows) :
                                       Rows[FoundRow(ret.key)].id \in Range(Rows[k].friends)}}

\* Of two loaded Persons one lists the other, who lists nobody; the
\* admirers of the listed one were asked for.
C5_Witness ==
    /\ Loaded
    /\ ret.op = "admirers"
    /\ Cardinality(db.people) = 2
    /\ Len(ret.out) = 1
    /\ \A q \in db.people : q.name = ret.key => <<q.id, ret.out[1].id>> \notin db.friendships
    /\ ret.out[1].name # ret.key

(***************************************************************************)
(* C6.  Friendship is directed.  After a load of an input in which A's     *)
(* record lists B's id and B's record does not list A's id:                *)
(* get_friends_of_person(A.name) holds B, get_friends_of_person(B.name)    *)
(* does not hold A, get_persons_who_consider_them_friend(B.name) holds A,  *)
(* and the store has no edge from B to A.  As claimed, for any input.      *)
(***************************************************************************)
Directed(a, b) ==
    /\ <<Rows[b].id, Rows[a].id>> \notin db.friendships
    /\ (ret.op = "friends" /\ ret.key = Rows[a].name) =>
          ~ret.raised /\ PersonOf(Rows[b]) \in Range(ret.out)
    /\ (ret.op = "friends" /\ ret.key = Rows[b].name) =>
          ~ret.raised /\ PersonOf(Rows[a]) \notin Range(ret.out)
    /\ (ret.op = "admirers" /\ ret.key = Rows[b].name) =>
          ~ret.raised /\ PersonOf(Rows[a]) \in Range(ret.out)

OneWay(a, b) ==
    /\ Rows[b].id \in Range(Rows[a].friends)
    /\ Rows[a].id \notin Range(Rows[b].friends)

C6_DirectedAnyInput ==
    Loaded => \A a, b \in 1..Len(Rows) : OneWay(a, b) => Directed(a, b)

\* C6 as amended: for any such input in which no other Person has the
\* display name of A or of B.
C6_DirectedUniqueNames ==
    Loaded => \A a, b \in 1..Len(Rows) :
                 (OneWay(a, b) /\ NameIsUnique(a) /\ NameIsUnique(b)) => Directed(a, b)

\* A lists B only, B lists nobody, and B's admirers were asked for.
C6_Witness ==
    /\ Loaded
    /\ ret.op = "admirers"
    /\ \E a, b \in 1..Len(Rows) :
          /\ OneWay(a, b)
          /\ NameIsUnique(a)
          /\ NameIsUnique(b)
          /\ ret.key = Rows[b].name
          /\ PersonOf(Rows[a]) \in Range(ret.out)

(***************************************************************************)
(* C7.  A load that re-reads the input of the load before it ends as that  *)
(* load ended (it completes if that one completed), and every query then   *)
(* returns what it returned, or would have returned, after the first load. *)
(***************************************************************************)
C7_IdempotentReload ==
    (Idle /\ reload.same) =>
        /\ outcome = reload.outcome
        /\ ret.op # "none" => ret = Asked(reload.sess, ret.op, ret.key).ret

\* A completed load was repeated and a query answered with a Person.
C7_Witness ==
    /\ Loaded
    /\ reload.same
    /\ reload.outcome = "ok"
    /\ ret.op # "none"
    /\ ret.out # <<>>

(***************************************************************************)
(* C8.  A friend id that no loaded Person has never makes load fail and    *)
(* never becomes an edge: in every state both ends of every friendship     *)
(* edge, committed, flushed or pending, are Persons of the store; and a    *)
(* load raises only on an input with another defect (a defect of the file, *)
(* an id on two records, a club twice in a record, a loaded friend twice   *)
(* in a record).                                                           *)
(***************************************************************************)
Defective(in) ==
    \/ in.fault # "none"
    \/ HasDup([j \in 1..Len(in.rows) |-> in.rows[j].id])
    \/ \E j \in 1..Len(in.rows) :
          \/ HasDup(in.rows[j].clubs)
          \/ HasDup(SelectSeq(in.rows[j].friends, LAMBDA f : f \in RowIds(in.rows)))

HasDangling(in) ==
    \E j \in 1..Len(in.rows) : \E f \in Range(in.rows[j].friends) : f \notin RowIds(in.rows)

C8_DanglingIgnored ==
    /\ \A e \in db.friendships : e[1] \in Ids(db.people) /\ e[2] \in Ids(db.people)
    /\ \A e \in tx.friendships \cup Range(pend.friends) :
          e[1] \in Ids(tx.people) /\ e[2] \in Ids(tx.people)
    /\ (Idle /\ outcome = "raised") => Defective(csv)

\* A load completed on an input with a friend id that no record has, next
\* to one that a record has.
C8_Witness ==
    /\ Loaded
    /\ HasDangling(csv)
    /\ db.friendships # {}

(***************************************************************************)
(* C9.  While a load runs there is no friendship edge, flushed or pending, *)
(* before every Person of the input is in the store; so after a load a     *)
(* friend id of a Person on a later record is an edge just as one of a     *)
(* Person on an earlier record is.                                         *)
(***************************************************************************)
C9_TwoPasses ==
    /\ (tx.friendships # {} \/ pend.friends # <<>>) =>
          /\ pc \in {"pass2", "idle"}
          /\ \A j \in 1..Len(Rows) : PersonOf(Rows[j]) \in tx.people
    /\ Loaded =>
          \A j, k \in 1..Len(Rows) :
              Rows[k].id \in Range(Rows[j].friends) =>
                  <<Rows[j].id, Rows[k].id>> \in db.friendships

\* The first record lists the id of the second, and the edge is there.
C9_Witness ==
    /\ Loaded
    /\ Len(Rows) = 2
    /\ Rows[2].id \in Range(Rows[1].friends)
    /\ <<Rows[1].id, Rows[2].id>> \in db.friendships

(***************************************************************************)
(* C10.  On a store never loaded and on a loaded store, a query whose key  *)
(* is no club description, respectively no display name, of the input      *)
(* returns the empty sequence and raises nothing.                          *)
(***************************************************************************)
KeyUnknown ==
    IF ret.op = "club"
    THEN ret.key \notin Range(ClubsOf(Rows))
    ELSE \A j \in 1..Len(Rows) : Rows[j].name # ret.key

C10_UnknownKey ==
    (Idle /\ ret.op # "none" /\ outcome \in {"none", "ok"} /\ KeyUnknown) =>
        ~ret.raised /\ ret.out = <<>>

\* A store with a Person in a club, with a friend, asked for a club that is
\* not there.
C10_Witness ==
    /\ Loaded
    /\ db.club_members # <<>>
    /\ db.friendships # {}
    /\ ret.op = "club"
    /\ KeyUnknown

(***************************************************************************)
(* C11.  In every state no two Persons of the store, committed or flushed, *)
(* have the same id, and every Person of the store has the id and the name *)
(* of a record of the input; a load of an input with one id on two records *)
(* raises and leaves no Person in the store.                               *)
(***************************************************************************)
IdsUnique(people) == \A p, q \in people : p.id = q.id => p = q

SharedId(rows) == \E j, k \in 1..Len(rows) : j < k /\ rows[j].id = rows[k].id

C11_UniquePersonIds ==
    /\ IdsUnique(db.people)
    /\ IdsUnique(tx.people)
    /\ \A p \in db.people \cup tx.people : \E j \in 1..Len(Rows) : p = PersonOf(Rows[j])
    /\ (Idle /\ outcome # "none" /\ csv.fault = "none" /\ SharedId(Rows)) =>
           outcome = "raised" /\ db.people = {} /\ tx.people = {}

\* A load of two records with one id and two names, and nothing else wrong,
\* over a store that held a Person, has raised.
C11_Witness ==
    /\ Idle
    /\ outcome = "raised"
    /\ csv.fault = "none"
    /\ Len(Rows) = 2
    /\ Rows[1].id = Rows[2].id
    /\ Rows[1].name # Rows[2].name
    /\ pre.people # {}
    /\ db.people = {}

LoadedFriends(row) == SelectSeq(row.friends, LAMBDA f : f \in RowIds(Rows))

FriendTwice == \E j \in 1..Len(Rows) : HasDup(LoadedFriends(Rows[j]))

OnlyFriendTwice ==
    /\ csv.fault = "none"
    /\ ~SharedId(Rows)
    /\ \A j \in 1..Len(Rows) : ~HasDup(Rows[j].clubs)
    /\ FriendTwice

C13_DuplicateFriendOneEdge ==
    (Idle /\ outcome # "none" /\ OnlyFriendTwice) =>
        /\ outcome = "ok"
        /\ db.friendships = TablesOf(Rows).friendships
        /\ (ret.op = "friends" /\ \E j \in 1..Len(Rows) : Rows[j].name = ret.key) =>
               ~ret.raised /\ ~HasDup(ret.out)

(***************************************************************************)
(* C14.  After a load that completes, the store holds the Persons, Clubs   *)
(* and edges of the file that the csv_path argument of the call names.     *)
(***************************************************************************)
NamedFile == Files(csv)[csv_path]

C14_LoadsNamedFile == Loaded => db = TablesOf(NamedFile.rows)

(***************************************************************************)
(* C15.  After a load the Club with id k is the k-th distinct description  *)
(* met when the records are read in input order and each club list in list *)
(* order, whichever record holds it, and each membership edge carries the  *)
(* id given that way; the same after a reload.                             *)
(***************************************************************************)
C15_ClubIdsFirstSeen ==
    Loaded =>
        /\ Len(db.clubs) = Len(ClubsOf(Rows))
        /\ \A k \in 1..Len(db.clubs) : db.clubs[k] = ClubsOf(Rows)[k]
        /\ \A j \in 1..Len(Rows) : \A d \in Range(Rows[j].clubs) :
              \E k \in 1..Len(db.clubs) :
                  /\ db.clubs[k] = d
                  /\ <<Rows[j].id, k>> \in Range(db.club_members)
                  /\ \A l \in 1..Len(db.clubs) :
                        ClubId(Rows, db.clubs[l]) < ClubId(Rows, d) <=> l < k

\* The first record is in club "y" and the second in club "x"; the file was
\* loaded twice in a row and "y" has the smaller id.
C15_Witness ==
    /\ Loaded
    /\ reload.same
    /\ Len(Rows) = 2
    /\ Rows[1].clubs = <<"y">>
    /\ Rows[2].clubs = <<"x">>
    /\ db.clubs = <<"y", "x">>

(***************************************************************************)
(* C16.  After a load, get_club_members(d) returns the members of the Club *)
(* in the input order of the records that list d, whether or not the       *)
(* records are sorted by person id.                                        *)
(***************************************************************************)
RecordsListing(d) ==
    SelectSeq([j \in 1..Len(Rows) |-> Rows[j]], LAMBDA r : d \in Range(r.clubs))

C16_MembersInRecordOrder ==
    (Loaded /\ ret.op = "club" /\ ret.key \in Range(ClubsOf(Rows))) =>
        /\ ~ret.raised
        /\ Len(ret.out) = Len(RecordsListing(ret.key))
        /\ \A j \in 1..Len(ret.out) : ret.out[j] = PersonOf(RecordsListing(ret.key)[j])

\* The club has two members and the record of the one with the larger id
\* comes first in the input.
C16_Witness ==
    /\ Loaded
    /\ ret.op = "club"
    /\ Len(ret.out) = 2
    /\ Rows[1].id > Rows[2].id
    /\ ret.out[1].id > ret.out[2].id

(***************************************************************************)
(* C17.  After a load, get_friends_of_person(name), for the name of one    *)
(* Person only, returns that Person's friends in the order of the friend   *)
(* ids in its record, the ids nobody has left out, whether or not the list *)
(* is sorted by id.                                                        *)
(***************************************************************************)
C17_FriendsInRecordOrder ==
    (Loaded /\ ret.op = "friends") =>
        \A j \in 1..Len(Rows) :
            (Rows[j].name = ret.key /\ NameIsUnique(j)) =>
                /\ ~ret.raised
                /\ OutIds = LoadedFriends(Rows[j])

(***************************************************************************)
(* C18.  Whatever calls were made, every variable that was assigned a      *)
(* Singleton refers to the one registered instance, every getInstance call *)
(* returns it, and get_config through any of them returns for a key the    *)
(* value last given to set_config for that key through any of them (None   *)
(* when there was none).                                                   *)
(***************************************************************************)
C18_OneInstance ==
    /\ \A c \in Callers : handles[c] \in {NoObject, _instance}
    /\ call.op = "getInstance" =>
          /\ ~call.raised
          /\ call.ret # NoObject
          /\ call.ret = _instance
          /\ call.before.instance # NoObject => call.ret = call.before.instance
    /\ call.op = "get_config" => call.ret = stored[call.key].value

\* another_instance.get_config returned the value that was stored through
\* singleton_instance.
C18_Witness ==
    /\ call.op = "get_config"
    /\ call.by = "another_instance"
    /\ stored[call.key].by = "singleton_instance"
    /\ call.ret = "PostgreSQL"

(***************************************************************************)
(* C19.  A direct call of the constructor while an instance is registered  *)
(* raises and leaves _instance and every configuration as they were; one   *)
(* made while none is registered registers the new object with an empty    *)
(* configuration, and every later getInstance call returns that object.    *)
(***************************************************************************)
C19_DirectConstructor ==
    /\ call.op = "Singleton" =>
          IF call.before.instance # NoObject
          THEN /\ call.raised
               /\ _instance = call.before.instance
               /\ configuration = call.before.configuration
          ELSE /\ ~call.raised
               /\ call.ret \notin DOMAIN call.before.configuration
               /\ _instance = call.ret
               /\ configuration[call.ret] = EmptyDict
               /\ constructed = call.ret
    /\ (call.op = "getInstance" /\ constructed # NoObject) =>
          ~call.raised /\ call.ret = constructed

\* The constructor was called and raised while the registered instance
\* held a configuration value.
C19_Witness ==
    /\ call.op = "Singleton"
    /\ call.raised
    /\ _instance # NoObject
    /\ configuration[_instance] # EmptyDict

(***************************************************************************)
(* C20.  When the clearing block of load raises: the deletes are rolled    *)
(* back together, so the four tables are what they were; load goes on, on  *)
(* a session of its own, and puts the records of a sound input into the    *)
(* store; and the caller's session is still the one the caller's queries   *)
(* use, so they answer from what is committed.  As claimed, load then      *)
(* completes on every sound input.                                         *)
(***************************************************************************)
RolledBackAsUnit ==
    (fresh /\ pc = "cleared") => db = pre /\ tx = pre /\ pend = NoPending

CallerSessionKept ==
    (fresh /\ Idle /\ ret.op # "none") =>
        /\ ~ret.raised
        /\ ret.out = Answer(ret.op, ret.key, db).out

Merged(T, rows) ==
    [people |-> T.people \cup TablesOf(rows).people,
     clubs |-> T.clubs \o TablesOf(rows).clubs,
     club_members |->
         T.club_members \o
         [j \in 1..Len(TablesOf(rows).club_members) |->
             <<TablesOf(rows).club_members[j][1],
               Len(T.clubs) + TablesOf(rows).club_members[j][2]>>],
     friendships |-> T.friendships \cup TablesOf(rows).friendships]

NameIsShared(name) ==
    \E j, k \in 1..Len(Rows) : j # k /\ Rows[j].name = name /\ Rows[k].name = name

C21_NamesakesResolveToOne ==
    (Loaded /\ ret.op \in {"friends", "admirers"} /\ NameIsShared(ret.key)) =>
        /\ ~ret.raised
        /\ ret.op = "friends" =>
              Range(OutIds) = Range(LoadedFriends(Rows[FoundRow(ret.key)]))
        /\ ret.op = "admirers" =>
              Range(OutIds) = {Rows[k].id : k \in {l \in 1..Len(Rows) :
                                  Rows[FoundRow(ret.key)].id \in Range(Rows[l].friends)}}
        /\ ret.out = Answer(ret.op, ret.key, tx).out
        /\ Session = Asked(Session, ret.op, ret.key).sess

\* Two Persons share a name; the one with the larger id is a friend of the
\* other, who has no admirer: the admirers asked for by that name are none.
C21_Witness ==
    /\ Loaded
    /\ ret.op = "admirers"
    /\ NameIsShared(ret.key)
    /\ \E p, q \in db.people :
          /\ p.name = ret.key
          /\ q.name = ret.key
          /\ p.id < q.id
          /\ <<p.id, q.id>> \in db.friendships
    /\ ret.out = <<>>

(***************************************************************************)
(* C22.  A call of one of the three queries, whatever the key and whatever *)
(* the load before it did, leaves the four tables as they were: the        *)
(* committed ones and the ones the session's transaction holds.            *)
(***************************************************************************)
QueryCalled == pc = "idle" /\ ret'.op # "none"

C22_QueriesReadOnly == [][QueryCalled => (db' = db /\ tx' = tx)]_vars

(***************************************************************************)
(* C23.  When two threads call Singleton.getInstance() and their steps     *)
(* interleave, at most one Singleton object is constructed (__init__ runs  *)
(* to its end on at most one), neither call raises, and the two calls      *)
(* return the same instance.                                               *)
(***************************************************************************)
ThreadReturned(t) == threads[t].pc = "done" /\ ~threads[t].raised

C23_ThreadsGetOneInstance ==
    /\ Cardinality(DOMAIN configuration) <= 1
    /\ \A t \in Threads : ~threads[t].raised
    /\ \A t, u \in Threads :
          (ThreadReturned(t) /\ ThreadReturned(u)) => threads[t].ret = threads[u].ret

\* The three parts of C23, each of which an interleaving breaks.
C23_OneObjectConstructed == Cardinality(DOMAIN configuration) <= 1

C23_NoCallRaises == \A t \in Threads : ~threads[t].raised

C23_SameInstanceReturned ==
    \A t, u \in Threads :
        (ThreadReturned(t) /\ ThreadReturned(u)) => threads[t].ret = threads[u].ret

\* What does hold: a call that returns returns a constructed Singleton.
C23_ReturnsAnInstance ==
    \A t \in Threads : ThreadReturned(t) => threads[t].ret \in Made

=============================================================================
